---- MODULE Spec2Model ----
(***************************************************************************)
(* Model of src/src/app.rs (TemplateApp): the directory-tree synthesis     *)
(* pass, the per-file dump cache and the line search with cyclic           *)
(* forward/backward navigation, driven by the egui frame handler update(). *)
(*                                                                         *)
(* Strings (paths, dump text, queries, labels) are sequences of byte       *)
(* codes, so that the raw path-string order, the path separator, the line  *)
(* feed and case folding are what they are in the program.                 *)
(***************************************************************************)
EXTENDS Integers, Sequences, FiniteSets, TLC

VARIABLES
    base_dir,        \* TemplateApp.base_dir: PathBuf (a byte string)
    dicom_files,     \* TemplateApp.dicom_files: Vec<PathSizeInfo> (their paths)
    selected_file,   \* TemplateApp.selected_file: Option<PathBuf>
    search_input,    \* TemplateApp.search_input: String
    dicom_dump,      \* TemplateApp.dicom_dump: HashMap<PathBuf, String>
    matched_pos,     \* TemplateApp.matched_pos: Option<usize>
    scroll_pos,      \* TemplateApp.scroll_pos: Option<usize>
    search_results,  \* TemplateApp.search_results: Option<Vec<usize>>
    events,          \* what the last build_ui_treeview pass sent to the tree builder
    pc,              \* the position of update() within the current frame
    last_op,         \* the handler that ran in the last step, with its inputs
    outcome          \* "ok" while the process runs, "panic" once an expect/unwrap fired

vars == <<base_dir, dicom_files, selected_file, search_input, dicom_dump,
          matched_pos, scroll_pos, search_results, events, pc, last_op, outcome>>

----------------------------------------------------------------------------
(* Bounds of the model. *)

\* entries of a FileList drawn for one tree-synthesis pass
MaxFiles == 3
\* bytes of a drawn dump text in the search specification
MaxTextLen == 3
\* bytes of a drawn query in the search specification
MaxQueryLen == 2
\* entries of a scan listing handed to handle_file_open in the session
MaxScan == 2
\* scaled-down stand-in for the regex crate's compiled-size limit: the
\* largest escaped pattern (in bytes) that RegexBuilder::build accepts
RegexSizeLimit == 4

----------------------------------------------------------------------------
(* Option<T> *)

None == [some |-> FALSE]
Some(x) == [some |-> TRUE, val |-> x]

----------------------------------------------------------------------------
(* Bytes and byte strings. *)

LF == 10          \* "\n"
DOT == 46         \* ".", sorts below the separator, a regex meta character
SEP == 47         \* "/", std::path::MAIN_SEPARATOR
BACKSLASH == 92   \* "\\"

Str_root == <<SEP, 114>>            \* "/r"
Str_other == <<SEP, 115>>           \* "/s"

Range(s) == {s[i] : i \in 1..Len(s)}

Last(s) == s[Len(s)]

\* Ord::cmp on byte strings (OsStr): lexicographic, a proper prefix is smaller
StrLess(s, t) ==
    \E i \in 1..(Len(t)) :
        /\ \A j \in 1..(i - 1) : j <= Len(s) /\ s[j] = t[j]
        /\ \/ i > Len(s)
           \/ s[i] < t[i]

StrLeq(s, t) == s = t \/ StrLess(s, t)

\* the sequences over alphabet A of length at most n
RECURSIVE SeqsUpTo(_, _)
SeqsUpTo(A, n) ==
    IF n = 0 THEN {<<>>}
    ELSE LET shorter == SeqsUpTo(A, n - 1)
         IN  shorter \cup {Append(s, a) : s \in {x \in shorter : Len(x) = n - 1}, a \in A}

\* the subsets of S with at most k elements
RECURSIVE SubsetsUpTo(_, _)
SubsetsUpTo(S, k) ==
    IF k = 0 THEN {{}}
    ELSE LET smaller == SubsetsUpTo(S, k - 1)
         IN  smaller \cup {T \cup {x} : T \in smaller, x \in S}

----------------------------------------------------------------------------
(* std::path on Unix, as far as build_ui_treeview uses it.  A path is its  *)
(* byte string; the operations see it through its components.              *)

\* the segments of s between separators
RECURSIVE Split(_, _)
Split(s, sep) ==
    IF \A i \in 1..Len(s) : s[i] /= sep THEN <<s>>
    ELSE LET k == CHOOSE i \in 1..Len(s) :
                      s[i] = sep /\ \A j \in 1..(i - 1) : s[j] /= sep
         IN  <<SubSeq(s, 1, k - 1)>> \o Split(SubSeq(s, k + 1, Len(s)), sep)

\* Path::has_root
has_root(p) == Len(p) > 0 /\ p[1] = SEP

\* Path::components: the Normal components; empty segments (repeated or
\* trailing separators) and "." segments are normalised away
components(p) == SelectSeq(Split(p, SEP), LAMBDA c : c /= <<>> /\ c /= <<DOT>>)

\* the path string of an (absolute or relative) component list
RECURSIVE JoinComponents(_)
JoinComponents(cs) ==
    IF cs = <<>> THEN <<>>
    ELSE IF Len(cs) = 1 THEN cs[1]
    ELSE cs[1] \o <<SEP>> \o JoinComponents(Tail(cs))

FromComponents(abs, cs) ==
    IF abs THEN <<SEP>> \o JoinComponents(cs) ELSE JoinComponents(cs)

\* Path::parent: the path without its final component; None for a root or
\* an empty path
parent(p) ==
    LET cs == components(p)
    IN  IF cs = <<>> THEN None
        ELSE Some(FromComponents(has_root(p), SubSeq(cs, 1, Len(cs) - 1)))

\* Path::file_name: the final Normal component
file_name(p) ==
    LET cs == components(p)
    IN  IF cs = <<>> THEN None ELSE Some(Last(cs))

\* a comparison of the raw strings (str::starts_with) instead of components
starts_with_bytes(p, base) ==
    Len(base) <= Len(p) /\ SubSeq(p, 1, Len(base)) = base

\* Path::starts_with: base is a prefix of p, whole components only
starts_with(p, base) ==
    LET cs == components(p)
        bs == components(base)
    IN  /\ has_root(p) = has_root(base)
        /\ Len(bs) <= Len(cs)
        /\ SubSeq(cs, 1, Len(bs)) = bs

\* Path::strip_prefix: Ok(the components of p below base) or Err
strip_prefix(p, base) ==
    IF starts_with(p, base)
    THEN [ok |-> TRUE,
          rest |-> SubSeq(components(p), Len(components(base)) + 1, Len(components(p)))]
    ELSE [ok |-> FALSE]

\* PathBuf::push of one Normal component
push(p, c) ==
    IF p = <<>> \/ Last(p) = SEP THEN p \o c ELSE p \o <<SEP>> \o c

----------------------------------------------------------------------------
(* The events a TreeViewBuilder receives. *)

OpenDir(path, label) == [type |-> "dir", path |-> path, label |-> label]
Leaf(path, label) == [type |-> "leaf", path |-> path, label |-> label]
CloseDir == [type |-> "close_dir"]

\* The state of one pass: the cursor current_dir, the events sent to the
\* builder so far, the values the cursor has taken, and whether an expect
\* has fired.
Start(base) ==
    [cursor |-> base, events |-> <<OpenDir(base, base)>>, trail |-> <<base>>,
     panicked |-> FALSE]

Emit(w, e) == [w EXCEPT !.events = Append(@, e)]

MoveTo(w, dir, e) ==
    [cursor |-> dir, events |-> Append(w.events, e), trail |-> Append(w.trail, dir),
     panicked |-> w.panicked]

Panic(w) == [w EXCEPT !.panicked = TRUE]

\* an ascent that goes on until the cursor is parent_dir itself
RECURSIVE GoUp_exact(_, _)
GoUp_exact(w, parent_dir) ==
    IF parent_dir = w.cursor THEN w
    ELSE IF ~parent(w.cursor).some THEN Panic(w)
    ELSE GoUp_exact(MoveTo(w, parent(w.cursor).val, CloseDir), parent_dir)

\* the ascent loop: go up until parent_dir is under the cursor; the expect
\* fires when the cursor has no parent
RECURSIVE GoUp(_, _)
GoUp(w, parent_dir) ==
    IF starts_with(parent_dir, w.cursor) THEN w
    ELSE IF ~parent(w.cursor).some THEN Panic(w)
    ELSE GoUp(MoveTo(w, parent(w.cursor).val, CloseDir), parent_dir)

\* the descent loop: push each component of path_diff, opening a directory
RECURSIVE GoDown(_, _)
GoDown(w, path_diff) ==
    IF path_diff = <<>> THEN w
    ELSE GoDown(MoveTo(w, push(w.cursor, Head(path_diff)),
                       OpenDir(push(w.cursor, Head(path_diff)), Head(path_diff))),
                Tail(path_diff))

\* if let Ok(path_diff) = parent_dir.strip_prefix(&current_dir)
Descend(w, parent_dir) ==
    IF w.panicked \/ ~strip_prefix(parent_dir, w.cursor).ok THEN w
    ELSE GoDown(w, strip_prefix(parent_dir, w.cursor).rest)

\* builder.leaf(entry.path, file_name)
AddLeaf(w, path) ==
    IF w.panicked THEN w ELSE Emit(w, Leaf(path, file_name(path).val))

\* one round of the for loop of build_ui_treeview, for one entry
EntryStep(w, path) ==
    IF ~parent(path).some \/ ~file_name(path).some THEN Panic(w)
    ELSE AddLeaf(Descend(GoUp(w, parent(path).val), parent(path).val), path)

\* the for loop over dicom_files
RECURSIVE EntryLoop(_, _)
EntryLoop(w, files) ==
    IF files = <<>> \/ w.panicked THEN w
    ELSE EntryLoop(EntryStep(w, Head(files).path), Tail(files))

\* a pass that forgets the closes after the loop
FinalCloses_none(current_dir, base) == <<>>

\* the closes after the loop: one per component of the cursor below base
FinalCloses(current_dir, base) ==
    IF strip_prefix(current_dir, base).ok
    THEN [i \in 1..Len(strip_prefix(current_dir, base).rest) |-> CloseDir]
    ELSE <<>>

\* the final closes and the close of the base directory
Finish(w, base) ==
    IF w.panicked THEN w
    ELSE [w EXCEPT !.events = @ \o FinalCloses(w.cursor, base) \o <<CloseDir>>]

\* TemplateApp::build_ui_treeview: the events sent to the builder, the
\* values current_dir takes, and whether an expect fired
TreeWalk(base, files) == Finish(EntryLoop(Start(base), files), base)

build_ui_treeview(base, files) == TreeWalk(base, files).events

\* what a pass leaves behind: the events the builder got, and a panic if an
\* expect fired
ShowTree(walk) ==
    /\ events' = walk.events
    /\ outcome' = IF walk.panicked THEN "panic" ELSE "ok"

----------------------------------------------------------------------------
(* The File Classifier part of handle_file_open. *)

\* PathSizeInfo, as far as the program reads it
Entry(path, is_dir) == [path |-> path, is_dir |-> is_dir]

\* the comparator of sort_by: a.path.as_os_str().cmp(b.path.as_os_str())
PathLeq(a, b) == StrLeq(a.path, b.path)

\* slice::sort_by, a stable sort: x goes behind every element not above it
RECURSIVE InsertSorted(_, _)
InsertSorted(sorted, x) ==
    IF sorted = <<>> THEN <<x>>
    ELSE IF PathLeq(Head(sorted), x)
    THEN <<Head(sorted)>> \o InsertSorted(Tail(sorted), x)
    ELSE <<x>> \o sorted

\* a sort that leaves the vector as it is
sort_by_none(v) == v

RECURSIVE sort_by(_)
sort_by(v) ==
    IF v = <<>> THEN <<>>
    ELSE InsertSorted(sort_by(SubSeq(v, 1, Len(v) - 1)), Last(v))

\* a classifier that keeps the scan's iteration order
Classify_unsorted(listing, valid) ==
    SelectSeq(listing, LAMBDA x : ~x.is_dir /\ x.path \in valid)

\* builder.iter().filter(|x| !x.is_dir && open_file(&x.path).is_ok()).collect(),
\* then the sort; valid is the set of paths open_file accepts
Classify(listing, valid) ==
    sort_by(SelectSeq(listing, LAMBDA x : ~x.is_dir /\ x.path \in valid))

----------------------------------------------------------------------------
(* The Search Engine: regex::escape, RegexBuilder and search. *)

\* regex_syntax::is_meta_character: \ . + * ? ( ) | [ ] { } ^ $ # & - ~
MetaBytes == {92, 46, 43, 42, 63, 40, 41, 124, 91, 93, 123, 125, 94, 36, 35, 38, 45, 126}

\* the query handed to the regex builder as it is
escape_none(q) == q

\* regex::escape: a backslash before every meta character
RECURSIVE escape(_)
escape(q) ==
    IF q = <<>> THEN <<>>
    ELSE (IF Head(q) \in MetaBytes THEN <<BACKSLASH, Head(q)>> ELSE <<Head(q)>>)
         \o escape(Tail(q))

\* the pattern language as far as the bytes of the model reach: an escaped
\* byte is a literal, "." is any byte but the line feed, any other byte is
\* itself; a trailing backslash is a syntax error
Literal(b) == [any |-> FALSE, byte |-> b]
AnyByte == [any |-> TRUE, byte |-> DOT]

RECURSIVE ParsePattern(_, _)
ParsePattern(pat, items) ==
    IF pat = <<>> THEN [ok |-> TRUE, items |-> items]
    ELSE IF Head(pat) = BACKSLASH
    THEN IF Len(pat) = 1 THEN [ok |-> FALSE, items |-> <<>>]
         ELSE ParsePattern(SubSeq(pat, 3, Len(pat)), Append(items, Literal(pat[2])))
    ELSE ParsePattern(Tail(pat),
                      Append(items, IF Head(pat) = DOT THEN AnyByte ELSE Literal(Head(pat))))

\* RegexBuilder::new(pattern).case_insensitive(true).build(): Err for a
\* syntax error or a pattern over the size limit
RegexBuild(pat) ==
    IF Len(pat) > RegexSizeLimit THEN [ok |-> FALSE, items |-> <<>>]
    ELSE ParsePattern(pat, <<>>)

\* simple case folding of ASCII letters
Fold(b) == IF b >= 65 /\ b <= 90 THEN b + 32 ELSE b

\* Regex::is_match: the items match somewhere in the line
is_match(items, line) ==
    \E k \in 0..(Len(line) - Len(items)) :
        \A j \in 1..Len(items) :
            IF items[j].any THEN line[k + j] /= LF
            ELSE Fold(line[k + j]) = Fold(items[j].byte)

\* TemplateApp::get_dicom_dump
get_dicom_dump(selected, dump) ==
    IF selected.some /\ selected.val \in DOMAIN dump THEN dump[selected.val] ELSE <<>>

\* the 1-based positions of the lines the regex matches, in order
MatchingLines(items, lines) ==
    SelectSeq([i \in 1..Len(lines) |-> i], LAMBDA i : is_match(items, lines[i]))

\* enumerate() counts from 0
ZeroBased(v) == [n \in 1..Len(v) |-> v[n] - 1]

\* the loop of search over text.split("\n").enumerate()
SearchLines(regex, text) ==
    IF ~regex.ok THEN [panicked |-> TRUE, results |-> <<>>]
    ELSE [panicked |-> FALSE,
          results |-> ZeroBased(MatchingLines(regex.items, Split(text, LF)))]

\* TemplateApp::search over the dump text; the unwrap of the build result
\* panics
search(text, query) ==
    IF text = <<>> THEN [panicked |-> FALSE, results |-> <<>>]
    ELSE SearchLines(RegexBuild(escape(query)), text)

\* first().copied().unwrap_or(0): line 0 when there is no result
first_or0(v) == IF v = <<>> THEN Some(0) ELSE Some(v[1])

\* slice::first / slice::last
first(v) == IF v = <<>> THEN None ELSE Some(v[1])
last(v) == IF v = <<>> THEN None ELSE Some(Last(v))

\* Iterator::find over the results, front to back or back to front
find_above(v, p) ==
    IF \E i \in 1..Len(v) : v[i] > p
    THEN Some(v[CHOOSE i \in 1..Len(v) : v[i] > p /\ \A j \in 1..(i - 1) : ~(v[j] > p)])
    ELSE None

\* a backward find that forgets rev(): the first result below p
find_below_front(v, p) ==
    IF \E i \in 1..Len(v) : v[i] < p
    THEN Some(v[CHOOSE i \in 1..Len(v) : v[i] < p /\ \A j \in 1..(i - 1) : ~(v[j] < p)])
    ELSE None

find_below_rev(v, p) ==
    IF \E i \in 1..Len(v) : v[i] < p
    THEN Some(v[CHOOSE i \in 1..Len(v) : v[i] < p /\ \A j \in (i + 1)..Len(v) : ~(v[j] < p)])
    ELSE None

\* a navigation that stops at the ends of the list instead of wrapping
get_next_match_nowrap(results, matched, forward_search) ==
    IF forward_search
    THEN IF ~matched.some THEN first(results) ELSE find_above(results, matched.val)
    ELSE IF ~matched.some THEN last(results) ELSE find_below_rev(results, matched.val)

\* a wrap test that misses the current match being the last (first) result
get_next_match_strict(results, matched, forward_search) ==
    IF forward_search
    THEN IF ~matched.some \/ (last(results).some /\ matched.val > last(results).val)
         THEN first(results)
         ELSE find_above(results, matched.val)
    ELSE IF ~matched.some \/ (first(results).some /\ matched.val < first(results).val)
         THEN last(results)
         ELSE find_below_rev(results, matched.val)

\* TemplateApp::get_next_match
get_next_match(results, matched, forward_search) ==
    IF forward_search
    THEN IF ~matched.some \/ (last(results).some /\ matched.val >= last(results).val)
         THEN first(results)
         ELSE find_above(results, matched.val)
    ELSE IF ~matched.some \/ (first(results).some /\ matched.val <= first(results).val)
         THEN last(results)
         ELSE find_below_rev(results, matched.val)

----------------------------------------------------------------------------
(* What the environment can hand to the session: the folders the picker    *)
(* returns, the listings the scan yields, the dump of a file, the text the *)
(* user types.                                                             *)

Roots == {Str_root, Str_other}

\* what can be listed under a root: a directory a, the files a/1, 2 and a-
Listable(root) ==
    { Entry(root \o <<SEP, 97>>, TRUE),
      Entry(root \o <<SEP, 97, SEP, 49>>, FALSE),
      Entry(root \o <<SEP, 50>>, FALSE),
      Entry(root \o <<SEP, 97, 45>>, FALSE) }

\* the listings of at most MaxScan entries, in every iteration order
Listings(root) ==
    {l \in SeqsUpTo(Listable(root), MaxScan) :
        \A i, j \in 1..Len(l) : i /= j => l[i] /= l[j]}

\* DirTreeBuilder::build: Err, or a finished walk with its entries and the
\* paths open_file accepts
Scans(root) ==
    {[ok |-> FALSE]} \cup
    UNION {{[ok |-> TRUE, listing |-> l, valid |-> v] :
                v \in SUBSET {l[i].path : i \in {j \in 1..Len(l) : ~l[j].is_dir}}} :
           l \in Listings(root)}

Text_abAa == <<97, LF, 98, LF, 65, LF, 97>>     \* "a\nb\nA\na"
Text_b == <<98, LF>>                            \* "b\n"

\* open_file and dump_file_to_with_limits on a selected file
FileOutcomes ==
    { [open |-> FALSE, dump |-> FALSE, text |-> <<>>],
      [open |-> TRUE, dump |-> FALSE, text |-> <<>>],
      [open |-> TRUE, dump |-> TRUE, text |-> Text_abAa],
      [open |-> TRUE, dump |-> TRUE, text |-> Text_b] }

\* a query whose escaped pattern is over the size limit
LongQuery == [i \in 1..(RegexSizeLimit + 1) |-> 97]

\* what the user types into the search box
Queries == {<<>>, <<97>>, <<98>>, LongQuery}

----------------------------------------------------------------------------
(* The handlers of TemplateApp, each on the fields it touches. *)

\* TemplateApp::handle_file_open
handle_file_open(path, scan) ==
    /\ base_dir' = path
    /\ IF scan.ok
       THEN /\ dicom_files' = Classify(scan.listing, scan.valid)
            /\ dicom_dump' = <<>>
            /\ outcome' = "ok"
       ELSE /\ dicom_files' = <<>>
            /\ dicom_dump' = dicom_dump
            /\ outcome' = "panic"
    /\ UNCHANGED <<selected_file, search_input, matched_pos, scroll_pos, search_results>>

\* Entry::Vacant: the map holds nothing for the key
vacant(map, key) == key \notin DOMAIN map

\* HashMap::insert: the value replaces what the map holds for the key
insert_overwrite(map, key, value) ==
    [k \in DOMAIN map \cup {key} |-> IF k = key THEN value ELSE map[k]]

\* HashMap::entry(key).or_insert_with(f): f runs only for a vacant entry
or_insert_with(map, key, value) ==
    IF ~vacant(map, key) THEN map
    ELSE [k \in DOMAIN map \cup {key} |-> IF k = key THEN value ELSE map[k]]

\* TemplateApp::handle_file_selected
handle_file_selected(node_id, file) ==
    /\ selected_file' = Some(node_id)
    /\ search_results' = None
    /\ matched_pos' = None
    /\ scroll_pos' = Some(0)
    /\ IF vacant(dicom_dump, node_id) /\ file.open /\ ~file.dump
       THEN /\ dicom_dump' = dicom_dump
            /\ outcome' = "panic"
       ELSE /\ dicom_dump' = or_insert_with(dicom_dump, node_id,
                                            IF file.open THEN file.text ELSE <<>>)
            /\ outcome' = "ok"
    /\ UNCHANGED <<base_dir, dicom_files, search_input>>

\* a failed fetch that marks the results as not searched yet
FetchNext_dirty(found, pos) ==
    IF found.panicked
    THEN /\ outcome' = "panic"
         /\ UNCHANGED <<matched_pos, scroll_pos, search_results>>
    ELSE /\ outcome' = "ok"
         /\ IF pos.some
            THEN /\ matched_pos' = pos
                 /\ scroll_pos' = pos
                 /\ search_results' = Some(found.results)
            ELSE /\ matched_pos' = None
                 /\ search_results' = None
                 /\ scroll_pos' = scroll_pos

\* the second half of handle_search: fetch the next match
FetchNext(found, pos) ==
    IF found.panicked
    THEN /\ outcome' = "panic"
         /\ UNCHANGED <<matched_pos, scroll_pos, search_results>>
    ELSE /\ outcome' = "ok"
         /\ IF pos.some
            THEN /\ matched_pos' = pos
                 /\ scroll_pos' = pos
                 /\ search_results' = Some(found.results)
            ELSE /\ matched_pos' = None
                 /\ search_results' = Some(<<>>)
                 /\ scroll_pos' = scroll_pos

\* the first half of handle_search: search if there are no results yet
SearchIfNone ==
    IF search_results.some
    THEN [panicked |-> FALSE, results |-> search_results.val]
    ELSE search(get_dicom_dump(selected_file, dicom_dump), search_input)

NextOf(found, is_forward_search) ==
    FetchNext(found, get_next_match(found.results, matched_pos, is_forward_search))

\* TemplateApp::handle_search
handle_search(is_forward_search) ==
    /\ NextOf(SearchIfNone, is_forward_search)
    /\ UNCHANGED <<base_dir, dicom_files, selected_file, search_input, dicom_dump>>

----------------------------------------------------------------------------
(* TemplateApp::update, one frame: the top panel, then (with a non-empty   *)
(* FileList) the tree view, the search box, the buttons and the dump area. *)

Running == outcome = "ok"

\* the paths of a scan that are no directory and that open_file accepts
KeptPaths(scan) ==
    IF scan.ok
    THEN {scan.listing[i].path :
             i \in {j \in 1..Len(scan.listing) :
                        ~scan.listing[j].is_dir /\ scan.listing[j].path \in scan.valid}}
    ELSE {}

\* "Open" (menu or toolbar) with a picked folder
FileOpen ==
    /\ Running /\ pc = "top"
    /\ \E path \in Roots : \E scan \in Scans(path) :
          /\ handle_file_open(path, scan)
          /\ last_op' = [op |-> "handle_file_open", scan_ok |-> scan.ok,
                         kept |-> KeptPaths(scan)]
    /\ pc' = "tree"
    /\ UNCHANGED events

\* an empty FileList: only an empty central panel is shown
EmptyPanel ==
    /\ Running /\ pc = "tree"
    /\ dicom_files = <<>>
    /\ pc' = "top"
    /\ last_op' = [op |-> "empty_panel"]
    /\ UNCHANGED <<base_dir, dicom_files, selected_file, search_input, dicom_dump,
                   matched_pos, scroll_pos, search_results, events, outcome>>

\* the tree view is built from the FileList
TreeView ==
    /\ Running /\ pc = "tree"
    /\ dicom_files /= <<>>
    /\ ShowTree(TreeWalk(base_dir, dicom_files))
    /\ pc' = "select"
    /\ last_op' = [op |-> "build_ui_treeview"]
    /\ UNCHANGED <<base_dir, dicom_files, selected_file, search_input, dicom_dump,
                   matched_pos, scroll_pos, search_results>>

\* Action::SetSelected with a node that is a file
Select ==
    /\ Running /\ pc = "select"
    /\ \E i \in 1..Len(events) : \E file \in FileOutcomes :
          /\ events[i].type = "leaf"
          /\ handle_file_selected(events[i].path, file)
          /\ vacant(dicom_dump, events[i].path) \/ file = CHOOSE f \in FileOutcomes : TRUE
          /\ last_op' = [op |-> "handle_file_selected",
                         parsed |-> vacant(dicom_dump, events[i].path),
                         failed |-> /\ vacant(dicom_dump, events[i].path)
                                    /\ (~file.open \/ ~file.dump),
                         reselect |-> selected_file = Some(events[i].path),
                         dirty |-> ~search_results.some]
    /\ UNCHANGED <<events, pc>>

\* the text of the search box changed
EditQuery ==
    /\ Running /\ pc = "edit"
    /\ \E q \in Queries \ {search_input} : search_input' = q
    /\ matched_pos' = None
    /\ search_results' = None
    /\ pc' = "enter"
    /\ last_op' = [op |-> "changed", dirty |-> ~search_results.some]
    /\ UNCHANGED <<base_dir, dicom_files, selected_file, dicom_dump, scroll_pos,
                   events, outcome>>

\* the navigation request of the step before, if that step was one
Prior ==
    IF last_op.op = "handle_search"
    THEN Some([forward |-> last_op.forward, from |-> last_op.from, had |-> last_op.had])
    ELSE None

\* a call of handle_search, with the current match and the results it found
Request(is_forward_search, by) ==
    [op |-> "handle_search", forward |-> is_forward_search, by |-> by,
     from |-> matched_pos, had |-> search_results, prior |-> Prior]

\* Enter in the search box
Enter ==
    /\ Running /\ pc = "enter"
    /\ handle_search(TRUE)
    /\ pc' = "prev"
    /\ last_op' = Request(TRUE, "enter")
    /\ UNCHANGED events

\* the Prev button
Prev ==
    /\ Running /\ pc = "prev"
    /\ handle_search(FALSE)
    /\ pc' = "next"
    /\ last_op' = Request(FALSE, "prev")
    /\ UNCHANGED events

\* the Next button
Next_ ==
    /\ Running /\ pc = "next"
    /\ IF search_input /= <<>>
       THEN /\ handle_search(TRUE)
            /\ last_op' = Request(TRUE, "next")
       ELSE /\ last_op' = [op |-> "next_ignored"]
            /\ UNCHANGED <<base_dir, dicom_files, selected_file, search_input, dicom_dump,
                           matched_pos, scroll_pos, search_results, outcome>>
    /\ pc' = "clear"
    /\ UNCHANGED events

\* a Clear that leaves the current match in place
Clear_keep_match ==
    /\ Running /\ pc = "clear"
    /\ search_input' = <<>>
    /\ search_results' = None
    /\ pc' = "dump"
    /\ last_op' = [op |-> "clear", dirty |-> ~search_results.some]
    /\ UNCHANGED <<base_dir, dicom_files, selected_file, dicom_dump, scroll_pos,
                   events, outcome, matched_pos>>

\* the Clear button
Clear ==
    /\ Running /\ pc = "clear"
    /\ search_input' = <<>>
    /\ matched_pos' = None
    /\ search_results' = None
    /\ pc' = "dump"
    /\ last_op' = [op |-> "clear", dirty |-> ~search_results.some]
    /\ UNCHANGED <<base_dir, dicom_files, selected_file, dicom_dump, scroll_pos,
                   events, outcome>>

\* a dump area that leaves the scroll request standing
Render_keep_scroll ==
    /\ Running /\ pc = "dump"
    /\ pc' = "top"
    /\ last_op' = [op |-> "render", scrolled |-> scroll_pos]
    /\ UNCHANGED <<base_dir, dicom_files, selected_file, search_input, dicom_dump,
                   matched_pos, search_results, events, outcome, scroll_pos>>

\* the dump area is drawn and the scroll request is consumed
Render ==
    /\ Running /\ pc = "dump"
    /\ scroll_pos' = None
    /\ pc' = "top"
    /\ last_op' = [op |-> "render", scrolled |-> scroll_pos]
    /\ UNCHANGED <<base_dir, dicom_files, selected_file, search_input, dicom_dump,
                   matched_pos, search_results, events, outcome>>

\* a widget of the frame that was not used
NextPc(at) ==
    CASE at = "top" -> "tree"
      [] at = "select" -> "edit"
      [] at = "edit" -> "enter"
      [] at = "enter" -> "prev"
      [] at = "prev" -> "next"
      [] at = "next" -> "clear"
      [] at = "clear" -> "dump"

Idle ==
    /\ Running /\ pc \in {"top", "select", "edit", "enter", "prev", "next", "clear"}
    /\ pc' = NextPc(pc)
    /\ last_op' = [op |-> "idle"]
    /\ UNCHANGED <<base_dir, dicom_files, selected_file, search_input, dicom_dump,
                   matched_pos, scroll_pos, search_results, events, outcome>>

\* TemplateApp::new
Init ==
    /\ base_dir = <<>>
    /\ dicom_files = <<>>
    /\ selected_file = None
    /\ search_input = <<>>
    /\ dicom_dump = <<>>
    /\ matched_pos = None
    /\ scroll_pos = None
    /\ search_results = None
    /\ events = <<>>
    /\ pc = "top"
    /\ last_op = [op |-> "new"]
    /\ outcome = "ok"

Next ==
    \/ FileOpen
    \/ EmptyPanel
    \/ TreeView
    \/ Select
    \/ EditQuery
    \/ Enter
    \/ Prev
    \/ Next_
    \/ Clear
    \/ Render
    \/ Idle

Spec == Init /\ [][Next]_vars

----------------------------------------------------------------------------
(* The tree synthesis alone: one build_ui_treeview pass over every sorted  *)
(* FileList of the bounds.                                                 *)

\* the folders a pass is run for: "/r" and the filesystem root "/"
TreeRoots == {Str_root, <<SEP>>}

\* names: "a", "a-" (extends a sibling's name by a byte below the
\* separator) and "ab" (extends it by a byte above the separator)
Name_a == <<97>>
Name_a_dash == <<97, 45>>
Name_ab == <<97, 98>>

\* the directories below a root, each by its components
DiskDirs ==
    { <<>>, <<Name_a>>, <<Name_a_dash>>, <<Name_ab>>,
      <<Name_a, Name_a>>, <<Name_a, Name_a_dash>>, <<Name_a, Name_ab>>,
      <<Name_ab, Name_a>> }

\* the names a file can have in any of them
FileNames == {Name_a, Name_a_dash, Name_ab}

RECURSIVE PushAll(_, _)
PushAll(p, cs) == IF cs = <<>> THEN p ELSE PushAll(push(p, Head(cs)), Tail(cs))

\* the file paths that can exist below a root
PathsBelow(root) == {push(PushAll(root, d), n) : d \in DiskDirs, n \in FileNames}

\* a set of paths that can all be files: none is a directory of another
FilesOnly(S) == \A x \in S : \A y \in S : x /= y => ~starts_with(y, x)

\* some listing of a set of file paths (the scan's order is undefined)
RECURSIVE Listing(_)
Listing(S) ==
    IF S = {} THEN <<>>
    ELSE LET x == CHOOSE y \in S : TRUE
         IN  <<Entry(x, FALSE)>> \o Listing(S \ {x})

\* the FileLists handle_file_open can produce under a root
FileLists(root) ==
    {Classify(Listing(S), S) :
        S \in {T \in SubsetsUpTo(PathsBelow(root), MaxFiles) : FilesOnly(T)}}

\* the scenario of the specification: a/1.dcm and b/c/3.dcm
Name_1dcm == <<49, DOT, 100, 99, 109>>
Name_3dcm == <<51, DOT, 100, 99, 109>>
ScenarioFiles(root) ==
    << Entry(push(push(root, <<97>>), Name_1dcm), FALSE),
       Entry(push(push(push(root, <<98>>), <<99>>), Name_3dcm), FALSE) >>

InitTree ==
    /\ base_dir \in TreeRoots
    /\ dicom_files \in FileLists(base_dir) \cup {ScenarioFiles(base_dir)}
    /\ selected_file = None
    /\ search_input = <<>>
    /\ dicom_dump = <<>>
    /\ matched_pos = None
    /\ scroll_pos = None
    /\ search_results = None
    /\ events = <<>>
    /\ pc = "tree"
    /\ last_op = [op |-> "new"]
    /\ outcome = "ok"

\* one synthesis pass
BuildTree ==
    /\ Running /\ pc = "tree"
    /\ ShowTree(TreeWalk(base_dir, dicom_files))
    /\ pc' = "done"
    /\ last_op' = [op |-> "build_ui_treeview"]
    /\ UNCHANGED <<base_dir, dicom_files, selected_file, search_input, dicom_dump,
                   matched_pos, scroll_pos, search_results>>

NextTree == BuildTree

SpecTree == InitTree /\ [][NextTree]_vars

----------------------------------------------------------------------------
(* The search alone: handle_search over every dump text and query of the   *)
(* bounds, for one selected and cached file.                               *)

\* the file whose dump is searched
Path_file == Str_root \o <<SEP, 49>>            \* "/r/1"

\* the bytes of the drawn texts and queries: a, A, ".", and the line feed
TextBytes == {97, 65, DOT, LF}
QueryBytes == {97, 65, DOT}

Text_abc == <<97, 98, 99>>                                  \* "abc"
Query_ABC == <<65, 66, 67>>                                 \* "ABC"
Query_foo == <<102, 111, 111>>                              \* "foo"
Text_foo == <<65, LF>> \o Query_foo \o <<LF, 66, LF>> \o Query_foo \o <<LF>>
                                                            \* "A\nfoo\nB\nfoo\n"

\* the (text, query) pairs searched: all of the bounds, and the scenarios
\* of the specification
SearchCases ==
    (SeqsUpTo(TextBytes, MaxTextLen) \X SeqsUpTo(QueryBytes, MaxQueryLen))
    \cup {<<Text_abc, Query_ABC>>, <<Text_foo, Query_foo>>, <<Text_abc, LongQuery>>}

InitSearch ==
    /\ base_dir = Str_root
    /\ dicom_files = <<Entry(Path_file, FALSE)>>
    /\ selected_file = Some(Path_file)
    /\ \E c \in SearchCases :
          /\ dicom_dump = [k \in {Path_file} |-> c[1]]
          /\ search_input = c[2]
    /\ matched_pos = None
    /\ scroll_pos = None
    /\ search_results = None
    /\ events = <<>>
    /\ pc = "enter"
    /\ last_op = [op |-> "new"]
    /\ outcome = "ok"

NextSearch ==
    \/ Enter
    \/ Prev
    \/ Next_
    \/ Idle

SpecSearch == InitSearch /\ [][NextSearch]_vars

----------------------------------------------------------------------------
(* Properties of the tree synthesis (under SpecTree). *)

IsOpen(e) == e.type = "dir"
IsClose(e) == e.type = "close_dir"
IsLeaf(e) == e.type = "leaf"

Count(ev, P(_)) == Cardinality({i \in 1..Len(ev) : P(ev[i])})

\* the number of directories open after the first k events
DepthAfter(ev, k) ==
    Cardinality({i \in 1..k : IsOpen(ev[i])}) - Cardinality({i \in 1..k : IsClose(ev[i])})

\* the stack of open directories after replaying the first k events
Replay(stack, e) ==
    IF IsOpen(e) THEN Append(stack, e.path)
    ELSE IF IsClose(e) /\ stack /= <<>> THEN SubSeq(stack, 1, Len(stack) - 1)
    ELSE stack

RECURSIVE StackAfter(_, _)
StackAfter(ev, k) ==
    IF k = 0 THEN <<>> ELSE Replay(StackAfter(ev, k - 1), ev[k])

PassDone == pc = "done" /\ outcome = "ok"

\* C1: the events of one pass over a sorted FileList under the root hold as
\* many OpenDir as CloseDir events and are properly nested: no CloseDir meets
\* an empty stack, and the stack is empty exactly after the final event.
C1_BalancedNested ==
    PassDone =>
        /\ Count(events, IsOpen) = Count(events, IsClose)
        /\ \A k \in 1..Len(events) :
              /\ IsClose(events[k]) => DepthAfter(events, k - 1) > 0
              /\ (DepthAfter(events, k) = 0) <=> (k = Len(events))

\* a pass that closed directories between two entries and went three deep
C1_Witness ==
    /\ PassDone
    /\ Len(dicom_files) = 3
    /\ \E k \in 1..Len(events) : DepthAfter(events, k) = 3
    /\ \E k \in 2..(Len(events) - 1) :
          IsClose(events[k - 1]) /\ IsClose(events[k]) /\ IsOpen(events[k + 1])

LeafEvents(ev) == SelectSeq(ev, IsLeaf)

ScenarioEvents(root) ==
    << OpenDir(root, root),
       OpenDir(push(root, <<97>>), <<97>>),
       Leaf(push(push(root, <<97>>), Name_1dcm), Name_1dcm),
       CloseDir,
       OpenDir(push(root, <<98>>), <<98>>),
       OpenDir(push(push(root, <<98>>), <<99>>), <<99>>),
       Leaf(push(push(push(root, <<98>>), <<99>>), Name_3dcm), Name_3dcm),
       CloseDir, CloseDir, CloseDir >>

\* C2: replaying the events on a stack reconstructs the hierarchy: one Leaf
\* per entry, in FileList order; each Leaf comes while the innermost open
\* directory is the entry's parent; each OpenDir(d) but the root's comes
\* while the innermost open directory is d's parent.  The scenario a/1.dcm,
\* b/c/3.dcm and the empty FileList give exactly the sequences stated.
C2_Hierarchy ==
    PassDone =>
        /\ [i \in 1..Len(LeafEvents(events)) |-> LeafEvents(events)[i].path]
             = [i \in 1..Len(dicom_files) |-> dicom_files[i].path]
        /\ events[1] = OpenDir(base_dir, base_dir)
        /\ \A k \in 2..Len(events) :
              (IsLeaf(events[k]) \/ IsOpen(events[k])) =>
                 /\ StackAfter(events, k - 1) /= <<>>
                 /\ Some(Last(StackAfter(events, k - 1))) = parent(events[k].path)
        /\ dicom_files = ScenarioFiles(base_dir) => events = ScenarioEvents(base_dir)
        /\ dicom_files = <<>> => events = <<OpenDir(base_dir, base_dir), CloseDir>>

\* the pass over the scenario's FileList
C2_Witness ==
    /\ PassDone
    /\ base_dir = Str_root
    /\ dicom_files = ScenarioFiles(Str_root)
    /\ Len(events) = 10

----------------------------------------------------------------------------
(* Properties of the search (under SpecSearch). *)

\* the positions of the line feeds of a text, with one before and one behind
Breaks(text) == {0, Len(text) + 1} \cup {i \in 1..Len(text) : text[i] = LF}

\* line number n (from 0) of a text: the bytes between its n-th and its
\* (n+1)-th break
LineAt(text, n) ==
    LET from == CHOOSE b \in Breaks(text) :
                    Cardinality({c \in Breaks(text) : c < b}) = n
        to == CHOOSE b \in Breaks(text) :
                    Cardinality({c \in Breaks(text) : c < b}) = n + 1
    IN  SubSeq(text, from + 1, to - 1)

LineCount(text) == Cardinality(Breaks(text)) - 1

\* q occurs in line as a substring, letters compared without case
ContainsNoCase(line, q) ==
    \E k \in 0..(Len(line) - Len(q)) :
        \A j \in 1..Len(q) : Fold(line[k + j]) = Fold(q[j])

\* the numbers of a set, ascending
RECURSIVE Ascending(_)
Ascending(S) ==
    IF S = {} THEN <<>>
    ELSE LET m == CHOOSE x \in S : \A y \in S : x <= y
         IN  <<m>> \o Ascending(S \ {m})

\* what the specification says search(query, text) returns
ExpectedMatches(query, text) ==
    IF text = <<>> THEN <<>>
    ELSE Ascending({n \in 0..(LineCount(text) - 1) : ContainsNoCase(LineAt(text, n), query)})

TheText == get_dicom_dump(selected_file, dicom_dump)

\* C10: the match list handle_search computes with search() is empty for an
\* empty text; otherwise it holds, ascending, exactly the 0-based numbers of
\* the lines (split on line feed, a trailing empty line included) that
\* contain the query as a literal substring, compared case-insensitively.
\* An empty query on a non-empty text gives every line number, and
\* search("ABC", "abc") gives [0].
C10_SearchResult ==
    search_results.some =>
        /\ search_results.val = ExpectedMatches(search_input, TheText)
        /\ (search_input = <<>> /\ TheText /= <<>>) =>
              search_results.val = [n \in 1..LineCount(TheText) |-> n - 1]
        /\ (search_input = Query_ABC /\ TheText = Text_abc) => search_results.val = <<0>>

\* a search for a query holding a regex meta character, in a text of two
\* lines of which one matches
C10_Witness ==
    /\ search_results.some
    /\ outcome = "ok"
    /\ DOT \in Range(search_input)
    /\ LineCount(TheText) = 2
    /\ Len(search_results.val) = 1

----------------------------------------------------------------------------
(* Properties of the session (under Spec). *)

StrictlyAscending(v) == \A i \in 1..Len(v) : \A j \in 1..Len(v) : i < j => v[i] < v[j]

\* a step in which handle_search ran and returned
Navigated == last_op'.op = "handle_search" /\ outcome' = "ok"

\* the results the navigation of a step works on: those held, or those the
\* search of this step computes for a dirty state
NavList ==
    IF search_results.some THEN search_results.val
    ELSE search(TheText, search_input).results

\* C3: on a non-empty results list, a forward request from no current match
\* selects the first result; from a current match it selects the smallest
\* result strictly greater, that is the next one in the list, and after the
\* last result the first again.  A backward request from no current match
\* selects the last result, else the largest result strictly smaller, and
\* after the first result the last again.
C3_Navigation ==
    [][ (Navigated /\ NavList /= <<>>) =>
          /\ StrictlyAscending(NavList)
          /\ matched_pos'.some
          /\ IF last_op'.forward
             THEN /\ ~matched_pos.some => matched_pos'.val = NavList[1]
                  /\ matched_pos.some =>
                       /\ (\E x \in Range(NavList) : x > matched_pos.val) =>
                             /\ matched_pos'.val \in Range(NavList)
                             /\ matched_pos'.val > matched_pos.val
                             /\ \A y \in Range(NavList) :
                                   y > matched_pos.val => matched_pos'.val <= y
                       /\ \A i \in 1..Len(NavList) :
                             matched_pos.val = NavList[i] =>
                                matched_pos'.val = NavList[(i % Len(NavList)) + 1]
             ELSE /\ ~matched_pos.some => matched_pos'.val = Last(NavList)
                  /\ matched_pos.some =>
                       /\ (\E x \in Range(NavList) : x < matched_pos.val) =>
                             /\ matched_pos'.val \in Range(NavList)
                             /\ matched_pos'.val < matched_pos.val
                             /\ \A y \in Range(NavList) :
                                   y < matched_pos.val => matched_pos'.val >= y
                       /\ \A i \in 1..Len(NavList) :
                             matched_pos.val = NavList[i] =>
                                matched_pos'.val =
                                   NavList[((i + Len(NavList) - 2) % Len(NavList)) + 1]
      ]_vars

\* a forward request at the last of three results wrapped to the first
C3_Witness ==
    /\ last_op.op = "handle_search" /\ last_op.forward /\ outcome = "ok"
    /\ search_results.some /\ Len(search_results.val) = 3
    /\ last_op.from = Some(search_results.val[3])
    /\ matched_pos = Some(search_results.val[1])

\* C4: when current_match and results are both Some, current_match is an
\* element of results.
C4_MatchInResults ==
    (matched_pos.some /\ search_results.some) =>
        matched_pos.val \in Range(search_results.val)

\* a current match inside a list of several results
C4_Witness ==
    /\ matched_pos.some /\ search_results.some
    /\ Len(search_results.val) >= 2
    /\ matched_pos.val = search_results.val[2]

\* C5: after open-root completes the DumpCache is empty, results = None and
\* current_match = None.
C5_OpenRootResets ==
    (last_op.op = "handle_file_open" /\ outcome = "ok") =>
        /\ dicom_dump = <<>>
        /\ search_results = None
        /\ matched_pos = None

\* C6: when the scan cannot start, open-root ends in an error outcome (not
\* in a panic) and leaves the session state as it was.
C6_ScanErrorKeepsState ==
    [][ (last_op'.op = "handle_file_open" /\ ~last_op'.scan_ok) =>
          /\ outcome' /= "panic"
          /\ UNCHANGED <<base_dir, dicom_files, dicom_dump, selected_file,
                         search_input, search_results, matched_pos>>
      ]_vars

Dirtying == {"changed", "handle_file_selected", "clear"}

\* C7: right after edit-query, select-leaf (of any path, the selected one
\* included) or clear-query, results = None and current_match = None.
C7_DirtyingResets ==
    last_op.op \in Dirtying => (search_results = None /\ matched_pos = None)

\* the selected file was selected again while results were held
C7_Witness ==
    /\ last_op.op = "handle_file_selected"
    /\ last_op.reselect /\ ~last_op.dirty
    /\ search_results = None /\ matched_pos = None

\* C8: but for open-root, no step removes or alters an entry of the
\* DumpCache; selecting a cached path runs no parse and leaves the cache as
\* it is; search, navigation, edit-query and clear-query leave the cache as
\* it is.
C8_CacheKept ==
    [][ /\ last_op'.op /= "handle_file_open" =>
             \A q \in DOMAIN dicom_dump :
                 q \in DOMAIN dicom_dump' /\ dicom_dump'[q] = dicom_dump[q]
        /\ (last_op'.op = "handle_file_selected" /\ selected_file'.val \in DOMAIN dicom_dump) =>
             (~last_op'.parsed /\ dicom_dump' = dicom_dump)
        /\ last_op'.op \in {"handle_search", "next_ignored", "changed", "clear"} =>
             dicom_dump' = dicom_dump
      ]_vars

\* a cached file was selected again while a second file is cached too
C8_Witness ==
    /\ last_op.op = "handle_file_selected" /\ ~last_op.parsed
    /\ Cardinality(DOMAIN dicom_dump) = 2
    /\ \E q \in DOMAIN dicom_dump : dicom_dump[q] /= dicom_dump[selected_file.val]

\* C9: after every navigation request (Enter, Prev, Next) that the frame
\* handler has dealt with, whatever the query, results is Some.
C9_NavigationComputes ==
    (last_op.op \in {"handle_search", "next_ignored"} /\ outcome = "ok") =>
        search_results.some

\* C11: a navigation request, forward or backward, made while results is
\* Some(empty) (held from before, or just computed by the search the request
\* runs first) finds no match: afterwards current_match = None and results is
\* Some(empty), not None; the scroll target is left alone.
C11_EmptyStaysEmpty ==
    [][ /\ (last_op'.op = "handle_search" /\ search_results = Some(<<>>)) =>
             outcome' = "ok"
        /\ (Navigated /\ NavList = <<>>) =>
             /\ matched_pos' = None
             /\ search_results' = Some(<<>>)
             /\ scroll_pos' = scroll_pos
      ]_vars

\* a backward request on results that an earlier request had found empty,
\* for a query that is not empty and a dump that is not empty
C11_Witness ==
    /\ last_op.op = "handle_search" /\ ~last_op.forward
    /\ last_op.had = Some(<<>>)
    /\ search_input /= <<>> /\ TheText /= <<>>
    /\ search_results = Some(<<>>) /\ matched_pos = None

\* C12: when select-leaf is applied to an uncached path and producing its
\* dump fails (open_file fails, or the dump or its conversion to a string
\* fails), the session goes on, and an empty string is stored for the path
\* and shown.
C12_DumpFailureSwallowed ==
    (last_op.op = "handle_file_selected" /\ last_op.failed) =>
        /\ outcome = "ok"
        /\ ~vacant(dicom_dump, selected_file.val)
        /\ dicom_dump[selected_file.val] = <<>>
        /\ TheText = <<>>

\* update() has returned: the frame is over and the next has not begun
FrameEnd == pc = "top" /\ outcome = "ok"

\* C13: at the end of every frame (every update call that returns), whatever
\* was handled in it and whether the FileList is empty or not, scroll_pos is
\* None.
C13_ScrollOneShot == FrameEnd => scroll_pos = None

\* the end of a frame in which a navigation request set the scroll target to
\* a line below the first
C13_Witness ==
    /\ FrameEnd
    /\ last_op.op = "render"
    /\ last_op.scrolled.some /\ last_op.scrolled.val > 0
    /\ scroll_pos = None

PathsOf(files) == {files[i].path : i \in 1..Len(files)}

\* C14: after a successful open-root the FileList holds exactly the scanned
\* entries that are no directory and that open_file accepts, each once, in
\* strictly ascending order of the raw path strings; and no step other than
\* open-root changes the FileList.
C14_FileList ==
    [][ /\ (last_op'.op = "handle_file_open" /\ outcome' = "ok") =>
             /\ PathsOf(dicom_files') = last_op'.kept
             /\ \A i \in 1..Len(dicom_files') : ~dicom_files'[i].is_dir
             /\ \A i, j \in 1..Len(dicom_files') :
                    i < j => StrLess(dicom_files'[i].path, dicom_files'[j].path)
        /\ last_op'.op /= "handle_file_open" => dicom_files' = dicom_files
      ]_vars

\* an open-root whose scan listed a directory and two files, one of them
\* with a "-" in its name, and kept both files
C14_Witness ==
    /\ last_op.op = "handle_file_open" /\ outcome = "ok"
    /\ Cardinality(last_op.kept) = 2
    /\ Len(dicom_files) = 2
    /\ \E i \in 1..2 : 45 \in Range(dicom_files[i].path)

\* the last step ran search() and the regex builder refused the escaped query
BuildFailed ==
    /\ last_op.op = "handle_search"
    /\ ~last_op.had.some
    /\ TheText /= <<>>
    /\ ~RegexBuild(escape(search_input)).ok

\* C15: when building the matcher for the escaped query fails, the search
\* yields the empty result list and the session goes on.
C15_BuildFailureSwallowed ==
    BuildFailed => (outcome = "ok" /\ search_results = Some(<<>>))

----------------------------------------------------------------------------
(* Further properties of the tree synthesis (under SpecTree). *)

\* the paths of the directories the events open, in order
OpenedPaths(ev) == [i \in 1..Len(SelectSeq(ev, IsOpen)) |-> SelectSeq(ev, IsOpen)[i].path]

\* C16: in one pass over a FileList sorted by raw path string no directory
\* is opened twice, also when sibling names share a prefix or hold a byte
\* that sorts below the separator.
C16_NoReopen ==
    PassDone =>
        \A i, j \in 1..Len(OpenedPaths(events)) :
            i /= j => OpenedPaths(events)[i] /= OpenedPaths(events)[j]

\* a pass that opened the sibling directories a, a- and ab
C16_Witness ==
    /\ PassDone
    /\ base_dir = Str_root
    /\ {push(Str_root, Name_a), push(Str_root, Name_a_dash), push(Str_root, Name_ab)}
          \subseteq Range(OpenedPaths(events))

\* every value the cursor took is the root or below it
UnderRoot(trail, base) == \A i \in 1..Len(trail) : starts_with(trail[i], base)

\* the cursor climbed back to the root from two levels below it
ClimbedBack(trail, base) ==
    \E j \in 1..Len(trail) : \E k \in (j + 1)..Len(trail) :
        /\ Len(components(trail[j])) = Len(components(base)) + 2
        /\ trail[k] = base

\* C18: in a pass over a sorted FileList whose entries lie under the root,
\* current_dir is at every step the root or a descendant of it: the ascent
\* loop ends for every entry without going above the root, and no expect on
\* parent() or file_name() fires.
C18_CursorUnderRoot ==
    pc = "done" =>
        /\ outcome = "ok"
        /\ ~TreeWalk(base_dir, dicom_files).panicked
        /\ UnderRoot(TreeWalk(base_dir, dicom_files).trail, base_dir)

\* a pass whose cursor went two directories deep and then back to the root
\* for a later entry
C18_Witness ==
    /\ PassDone
    /\ Len(dicom_files) = 3
    /\ ClimbedBack(TreeWalk(base_dir, dicom_files).trail, base_dir)

----------------------------------------------------------------------------
(* Further properties of the session (under Spec). *)

\* C17: after any sequence of intents, whenever results is Some it is what
\* search() returns for the current query and the dump now displayed for the
\* selected path, so the match count shown is the number of matching lines
\* of that dump.
C17_ResultsCurrent ==
    (outcome = "ok" /\ search_results.some) =>
        search_results.val = search(TheText, search_input).results

\* C19: a navigation request, forward or backward, made while results is a
\* non-empty list finds a match: current_match becomes an element of
\* results, scroll_pos is set to the same line, and results is left as it
\* was.  So a request that leaves results empty found it empty (held, or
\* computed empty by its own search).
C19_NonEmptyFinds ==
    [][ /\ (last_op'.op = "handle_search" /\ search_results.some
                /\ search_results.val /= <<>>) =>
             /\ outcome' = "ok"
             /\ matched_pos'.some
             /\ matched_pos'.val \in Range(search_results.val)
             /\ scroll_pos' = matched_pos'
             /\ search_results' = search_results
        /\ (Navigated /\ search_results' = Some(<<>>)) => NavList = <<>>
      ]_vars

\* a backward request at the first of three held results wrapped to the last
C19_Witness ==
    /\ last_op.op = "handle_search" /\ ~last_op.forward /\ outcome = "ok"
    /\ last_op.had = search_results
    /\ search_results.some /\ Len(search_results.val) = 3
    /\ last_op.from = Some(search_results.val[1])
    /\ matched_pos = Some(search_results.val[3])
    /\ scroll_pos = matched_pos

\* the last two steps were navigation requests in opposite directions, the
\* first made with a current match and a non-empty list of results
ThereAndBack ==
    /\ last_op.op = "handle_search"
    /\ last_op.prior.some
    /\ last_op.prior.val.forward /= last_op.forward
    /\ last_op.prior.val.from.some
    /\ last_op.prior.val.had.some
    /\ last_op.prior.val.had.val /= <<>>

\* C20: with a non-empty list of results and current_match = Some(m), a
\* forward request followed by a backward request leaves current_match =
\* Some(m), and so does a backward request followed by a forward request,
\* also across the wrap at the last and the first result.
C20_BackUndoesForth ==
    ThereAndBack =>
        /\ outcome = "ok"
        /\ matched_pos = last_op.prior.val.from
        /\ search_results = last_op.prior.val.had

\* Enter at the last of three results wrapped to the first, and Prev came
\* back to the last
C20_Witness ==
    /\ ThereAndBack
    /\ last_op.prior.val.forward /\ ~last_op.forward
    /\ Len(search_results.val) = 3
    /\ last_op.prior.val.from = Some(search_results.val[3])
    /\ last_op.from = Some(search_results.val[1])
    /\ matched_pos = Some(search_results.val[3])

====
